---- MODULE Spec2Model ----
(***************************************************************************)
(* A model of the DBN simulator: the graph container (dbn.py), its nodes   *)
(* (node.py), the linear-Gaussian distribution and the time features       *)
(* (evaluator/), and the sequential sampler (samplers/sequential.py).      *)
(*                                                                         *)
(* Numbers.  Table values, intercepts, initial values and the replacement  *)
(* value are kept as integers counted in units of 1/Unit, and weights as   *)
(* integers counted in fifths (0.8 is 4, 1.0 is 5), so that the products   *)
(* the sampler forms are exact (see ExactArithmetic).                      *)
(***************************************************************************)
EXTENDS Integers, Sequences, FiniteSets, TLC

\* ------------------------------------------------------------------ bounds
\* At most MaxParents add_parent calls are made on all nodes together.
MaxParents == 2
\* Sampler.generate is asked for 0..MaxSteps steps.
MaxSteps == 3
\* A call of generate gives at most MaxOverrides keyword arguments a value
\* other than the default.
MaxOverrides == 2

\* ------------------------------------------------------------- the objects
\* Node("A"), Node("B") and a second Node("A"); TemporalNode("T").
RegularObjects == {"nA", "nB", "nA2"}
\* add_parent is called on these; "nA2" stays the parentless Node("A") it is built as
ParentedObjects == {"nA", "nB"}
TemporalObjects == {"tT"}
Objects == RegularObjects \cup TemporalObjects

\* node.name, set by Node.__init__ / TemporalNode.__init__
NameOf(o) ==
  CASE o = "nA" -> "A"
    [] o = "nA2" -> "A"
    [] o = "nB" -> "B"
    [] o = "tT" -> "T"

\* isinstance(node, TemporalNode)
IsTemporal(o) == o \in TemporalObjects

\* The names a parent may be given: every node name of the model.
ParentNames == {"A", "B", "T"}
\* The lags add_parent is given: same timestep, previous timestep, two back.
Lags == {0, 1, 2}

VARIABLES
  parents,       \* node.parents of every node object: a list of <<parent_name, lag>>
  cpd,           \* node.cpd of every regular node object
  time_feature,  \* node.time_feature of every temporal node object
  nodes,         \* DBN.nodes: a dict, kept as the list of its items in insertion order
  max_lag,       \* DBN.max_lag
  ret,           \* what the last call returned or raised
  \* Sampler.generate, while it runs:
  pc,            \* "idle", "loop" (inside the two nested loops), "assemble", "done"
  call,          \* the arguments generate was called with
  initial_values,             \* the caller's initial_values object
  timeseries,                 \* the local dict of columns
  nodes_in_topological_order, \* the local list of nodes
  zipped,                     \* timeseries[time_column_name][start:], as zip() holds it
  current_timestep,           \* the timestep of the outer loop
  idx,                        \* the position of the inner loop in nodes_in_topological_order
  \* a record of what generate did, kept for the properties:
  passed,        \* the node and timestep last evaluated and the parent_values it was given
  reads,         \* the table cells <<column, row>> read for that evaluation
  seeded,        \* the cells written from initial_values
  generated      \* the cells written by the loop

dbn_vars == <<parents, cpd, time_feature, nodes, max_lag>>
gen_vars == <<pc, call, initial_values, timeseries, nodes_in_topological_order, zipped,
              current_timestep, idx, passed, reads, seeded, generated>>
vars == <<dbn_vars, ret, gen_vars>>

\* ------------------------------------------------------------ dict helpers
RECURSIVE SeqToSet(_)
SeqToSet(s) == IF s = <<>> THEN {} ELSE {Head(s)} \cup SeqToSet(Tail(s))

\* dict.keys(), in insertion order
Keys(d) == [i \in 1..Len(d) |-> d[i].name]
KeySet(d) == {d[i].name : i \in 1..Len(d)}
\* d[name]
Get(d, name) == (CHOOSE i \in 1..Len(d) : d[i].name = name)

\* d[name] = obj: a new key goes last, an existing key keeps its place
DictSet(d, name, obj) ==
  IF name \in KeySet(d)
  THEN [i \in 1..Len(d) |-> IF d[i].name = name THEN [name |-> name, obj |-> obj] ELSE d[i]]
  ELSE Append(d, [name |-> name, obj |-> obj])

None == [kind |-> "None"]

\* --------------------------------------------------------------- node.py
\* Node.add_parent: self.parents.append((parent_name, lag))
AddParent(ps, o, parent_name, lag) ==
  [ps EXCEPT ![o] = Append(@, <<parent_name, lag>>)]

\* ---------------------------------------------------------------- dbn.py
RECURSIVE FoldMaxLag(_, _)
\* the loop of DBN.add_node: for _, lag in node.parents: if lag > max_lag: max_lag = lag
FoldMaxLag(ps, m) ==
  IF ps = <<>> THEN m
  ELSE FoldMaxLag(Tail(ps), IF Head(ps)[2] > m THEN Head(ps)[2] ELSE m)

\* DBN.add_node
AddNode(d, m, ps, o) ==
  [nodes |-> DictSet(d, NameOf(o), o), max_lag |-> FoldMaxLag(ps[o], m)]

\* The directed graph DBN.get_topological_order builds (networkx.DiGraph):
\* its nodes in insertion order, first every key of self.nodes, then every
\* lag-0 parent name that is no key, in the order add_edge meets them.
ZeroLagParents(ps) == SelectSeq(ps, LAMBDA e : e[2] = 0)

RECURSIVE GraphNodes(_, _, _)
GraphNodes(d, ps, acc) ==
  IF d = <<>> THEN acc
  ELSE LET zp == ZeroLagParents(ps[Head(d).obj])
           add[i \in 0..Len(zp)] ==
             IF i = 0 THEN acc
             ELSE IF zp[i][1] \in SeqToSet(add[i - 1]) THEN add[i - 1]
                  ELSE Append(add[i - 1], zp[i][1])
       IN GraphNodes(Tail(d), ps, add[Len(zp)])

\* GraphEdges without the test lag == 0: an edge for every pair
GraphEdgesOfEveryLag(d, ps) ==
  UNION {{<<e[1], d[i].name>> : e \in SeqToSet(ps[d[i].obj])} : i \in 1..Len(d)}

\* G.add_edge(parent_name, node.name) for every pair with lag == 0
GraphEdges(d, ps) ==
  UNION {{<<e[1], d[i].name>> : e \in SeqToSet(ZeroLagParents(ps[d[i].obj]))}
         : i \in 1..Len(d)}

\* G.neighbors(v): the successors of v in the order their edges were added,
\* which is the order of the children in self.nodes
Neighbors(edges, d, v) ==
  SelectSeq(Keys(d), LAMBDA c : <<v, c>> \in edges)

InDegree(edges, v) == Cardinality({e \in edges : e[2] = v})

\* One generation of networkx.topological_generations: every node of the
\* generation, in order, lowers the in-degree of its children; a child that
\* reaches zero joins the next generation.
RECURSIVE RelaxChildren(_, _, _)
RelaxChildren(children, indeg, nxt) ==
  IF children = <<>> THEN [indeg |-> indeg, nxt |-> nxt]
  ELSE LET c == Head(children)
           nd == [indeg EXCEPT ![c] = @ - 1]
       IN RelaxChildren(Tail(children), nd, IF nd[c] = 0 THEN Append(nxt, c) ELSE nxt)

RECURSIVE RelaxGeneration(_, _, _, _, _)
RelaxGeneration(gen, edges, d, indeg, nxt) ==
  IF gen = <<>> THEN [indeg |-> indeg, nxt |-> nxt]
  ELSE LET r == RelaxChildren(Neighbors(edges, d, Head(gen)), indeg, nxt)
       IN RelaxGeneration(Tail(gen), edges, d, r.indeg, r.nxt)

RECURSIVE TopologicalGenerations(_, _, _, _, _)
TopologicalGenerations(zero, edges, d, indeg, out) ==
  IF zero = <<>>
  THEN [order |-> out, unfeasible |-> \E v \in DOMAIN indeg : indeg[v] > 0]
  ELSE LET r == RelaxGeneration(zero, edges, d, indeg, <<>>)
       IN TopologicalGenerations(r.nxt, edges, d, r.indeg, out \o zero)

\* list(nx.topological_sort(G))
TopologicalSort(d, ps) ==
  LET gn == GraphNodes(d, ps, Keys(d))
      edges == GraphEdges(d, ps)
      indeg == [v \in SeqToSet(gn) |-> InDegree(edges, v)]
      zero == SelectSeq(gn, LAMBDA v : indeg[v] = 0)
  IN TopologicalGenerations(zero, edges, d, indeg, <<>>)

\* DBN.get_topological_order: the cycle error, else the nodes looked up by
\* name, which is a KeyError on the first ordered name that is no key
GetTopologicalOrder(d, ps) ==
  LET t == TopologicalSort(d, ps)
      missing == SelectSeq(t.order, LAMBDA v : v \notin KeySet(d))
  IN IF t.unfeasible
     THEN [kind |-> "ValueError", what |-> "Cycle detected in 0-lag dependencies"]
     ELSE IF missing # <<>>
          THEN [kind |-> "KeyError", what |-> "self.nodes[name]", name |-> Head(missing)]
          ELSE [kind |-> "list", nodes |-> [i \in 1..Len(t.order) |-> d[Get(d, t.order[i])].obj]]

\* DBN.validate_structure: pass
ValidateStructure(d, ps) == None

\* ------------------------------------------------------------------ values
\* A float of the table; a pandas Timestamp (v days after 2024-01-01, a Monday)
Num(n) == [k |-> "num", v |-> n]
Ts(d) == [k |-> "ts", v |-> d]

\* One, in the unit the numbers are counted in.  A weight that is no whole
\* number (0.8) is only ever set on a lag-1 pair, so a value of row t is a
\* multiple of 5^(MaxSteps - t) units and every product below is exact.
Unit == 5 ^ MaxSteps

Min(a, b) == IF a < b THEN a ELSE b
Max(a, b) == IF a > b THEN a ELSE b

\* d[k] = v on a dict kept as a function
Put(f, k, v) == [x \in DOMAIN f \cup {k} |-> IF x = k THEN v ELSE f[x]]

\* What a call returns or raises: kind is "DataFrame", "list", "None" or the
\* name of the exception; what and info say which raise it was.
Result(kind, what, info, table) == [kind |-> kind, what |-> what, info |-> info, table |-> table]
NoTable == [columns |-> {}, data |-> <<>>, rows |-> 0]
Raise(kind, what, info) == Result(kind, what, info, NoTable)
Ok(cell) == [ok |-> TRUE, v |-> cell, err |-> Raise("None", "", {})]
Fail(kind, what, info) == [ok |-> FALSE, v |-> Num(0), err |-> Raise(kind, what, info)]

\* ------------------------------------------------- evaluator/time_features.py
PointOfPeriodicCycle(periodic_cycle_length) ==
  [kind |-> "PointOfPeriodicCycle", periodic_cycle_length |-> periodic_cycle_length]
DayOfWeek == [kind |-> "DayOfWeek", periodic_cycle_length |-> 0]
DayOfMonth == [kind |-> "DayOfMonth", periodic_cycle_length |-> 0]
MonthOfYear == [kind |-> "MonthOfYear", periodic_cycle_length |-> 0]

\* The calendar of 2024: the month and the day of the date d days after
\* 2024-01-01.
MonthLengths == <<31, 29, 31, 30, 31, 30, 31, 31, 30, 31, 30, 31>>
RECURSIVE MonthAndDay(_, _)
MonthAndDay(d, month) ==
  IF d < MonthLengths[month] THEN [month |-> month, day |-> d + 1]
  ELSE MonthAndDay(d - MonthLengths[month], month + 1)

\* DayOfWeek.evaluate: time.isoweekday(), which an int does not have
DayOfWeekEvaluate(time) ==
  IF time.k = "ts" THEN Ok(Num(((time.v % 7) + 1) * Unit))
  ELSE Fail("AttributeError", "isoweekday", {})

\* DayOfMonth.evaluate: time.day
DayOfMonthEvaluate(time) ==
  IF time.k = "ts" THEN Ok(Num(MonthAndDay(time.v, 1).day * Unit))
  ELSE Fail("AttributeError", "day", {})

\* MonthOfYear.evaluate: time.month
MonthOfYearEvaluate(time) ==
  IF time.k = "ts" THEN Ok(Num(MonthAndDay(time.v, 1).month * Unit))
  ELSE Fail("AttributeError", "month", {})

\* PointOfPeriodicCycleEvaluate without the + 1
PointOfPeriodicCycleEvaluateFromZero(tf, timestep) ==
  IF timestep.k = "num"
  THEN Ok(Num(((timestep.v \div Unit) % tf.periodic_cycle_length) * Unit))
  ELSE Fail("TypeError", "Timestamp % int", {})

\* PointOfPeriodicCycle.evaluate: it takes the integer timestep and cannot
\* take the remainder of a Timestamp
PointOfPeriodicCycleEvaluate(tf, timestep) ==
  IF timestep.k = "num"
  THEN Ok(Num((((timestep.v \div Unit) % tf.periodic_cycle_length) + 1) * Unit))
  ELSE Fail("TypeError", "Timestamp % int", {})

\* TimeFeature.evaluate(time), by the class of the feature
TimeFeatureEvaluate(tf, time) ==
  CASE tf.kind = "PointOfPeriodicCycle" -> PointOfPeriodicCycleEvaluate(tf, time)
    [] tf.kind = "DayOfWeek" -> DayOfWeekEvaluate(time)
    [] tf.kind = "DayOfMonth" -> DayOfMonthEvaluate(time)
    [] tf.kind = "MonthOfYear" -> MonthOfYearEvaluate(time)

\* ------------------------------------------- evaluator/cpds/linear_gaussian.py
\* LinearGaussianCPD.__init__
LinearGaussianCPD(parent_weights, intrinsic_mean, noise_std) ==
  [parent_weights |-> parent_weights, intrinsic_mean |-> intrinsic_mean, noise_std |-> noise_std]

\* self.parent_weights.get(key, 0.0)
WeightGet(parent_weights, key) ==
  IF key \in DOMAIN parent_weights THEN parent_weights[key] ELSE 0

\* weight * val, the weight counted in fifths
Times(weight, val) == (weight * val) \div 5

RECURSIVE SumTerms(_, _, _)
SumTerms(c, parent_values, keys) ==
  IF keys = {} THEN 0
  ELSE LET key == CHOOSE x \in keys : TRUE
       IN Times(WeightGet(c.parent_weights, key), parent_values[key].v)
          + SumTerms(c, parent_values, keys \ {key})

\* LinearSum without self.intrinsic_mean
LinearSumWithoutMean(c, parent_values) ==
  SumTerms(c, parent_values, DOMAIN parent_values)

\* linear_sum of LinearGaussianCPD.evaluate
LinearSum(c, parent_values) ==
  c.intrinsic_mean + SumTerms(c, parent_values, DOMAIN parent_values)

\* What numpy's normal(loc, scale) may return, loc + draw * scale: the draws
\* stand for the sample falling below, on and above the mean.
Draws == {-1, 0, 1}

\* LinearGaussianCPD.evaluate: a float times a Timestamp is a TypeError, and
\* numpy refuses a negative scale.
LinearGaussianEvaluate(c, parent_values, draw) ==
  IF \E key \in DOMAIN parent_values : parent_values[key].k # "num"
  THEN Fail("TypeError", "float * Timestamp", {})
  ELSE IF c.noise_std < 0
       THEN Fail("ValueError", "scale < 0", {})
       ELSE Ok(Num(LinearSum(c, parent_values) + draw * c.noise_std * Unit))

\* The distributions the nodes are given: Node("A") sums its parents (every
\* weight 1.0) around 5.0; the second Node("A") is the constant 3.0; Node("B")
\* weighs ("A", 1) by 0.8 and three more pairs by 1.0, around 1.0.
Cpds(noise_std) ==
  [o \in RegularObjects |->
     CASE o = "nA" -> LinearGaussianCPD([key \in ParentNames \X Lags |-> 5], 5 * Unit, noise_std)
       [] o = "nA2" -> LinearGaussianCPD(<<>>, 3 * Unit, 0)
       [] o = "nB" -> LinearGaussianCPD(
            [key \in {<<"A", 1>>, <<"A", 0>>, <<"T", 0>>, <<"B", 1>>} |->
               IF key = <<"A", 1>> THEN 4 ELSE 5], 1 * Unit, 0)]

\* -------------------------------------------------- samplers/sequential.py
NoInitialValues == [given |-> FALSE, map |-> <<>>]
NoCall ==
  [n_steps |-> 0, initial_values |-> NoInitialValues,
   replacement_value_for_non_existing_parents |-> 0, time_column_name |-> "Time",
   start_time |-> "None", frequency |-> "None",
   exclude_temporal_nodes_from_output |-> FALSE]
NothingPassed == [node |-> "", t |-> 0, values |-> <<>>]

\* utils.generate_datetime_series(n_steps, start_time, frequency): daily
\* timestamps from 2024-01-01
GenerateDatetimeSeries(length_of_series) == [i \in 1..length_of_series |-> Ts(i - 1)]
\* list(range(n_steps))
RangeList(n_steps) == [i \in 1..n_steps |-> Num((i - 1) * Unit)]

\* lst[:k] = values: the first k cells give way to the values
SliceAssign(lst, k, values) == values \o SubSeq(lst, k + 1, Len(lst))

\* the node objects of self.dbn.nodes.values() that are TemporalNodes, in order
TemporalValues(d) == SelectSeq([i \in 1..Len(d) |-> d[i].obj], IsTemporal)

\* [node.time_feature.evaluate(timestep) for timestep in timeseries[time_column_name][:max_lag]]
DerivedInitialValues(tf, times, m) ==
  [i \in 1..Min(m, Len(times)) |-> TimeFeatureEvaluate(tf, times[i])]

\* 0 if initial_values is None else self.dbn.max_lag
StartingTimestep(iv, m) == IF iv.given THEN m ELSE 0

\* StartFrequencyError without its elif branch
StartFrequencyErrorFirstBranchOnly(start_time, frequency) ==
  IF start_time # "None" /\ frequency = "None" THEN "frequency should be provided"
  ELSE ""

\* The check of start_time against frequency: the message of the ValueError
\* it raises, or "" when it raises none.
StartFrequencyError(start_time, frequency) ==
  IF start_time # "None" /\ frequency = "None" THEN "frequency should be provided"
  ELSE IF start_time = "None" /\ frequency # "None" THEN "start_time should be provided"
  ELSE ""

\* generate, from its first line to the entry of the loop.  `named` is the
\* node the loop over the set all_nodes meets first among those of a wrong
\* length.
GenerateCall(c, d, ps, tf, m, named) ==
  LET n == c.n_steps
      tcol == c.time_column_name
      iv == c.initial_values
      ts1 == [name \in KeySet(d) |-> [i \in 1..n |-> Num(0)]]
      both == c.start_time # "None" /\ c.frequency # "None"
      ts2 == Put(ts1, tcol, IF both THEN GenerateDatetimeSeries(n) ELSE RangeList(n))
      topo == GetTopologicalOrder(d, ps)
      stop(e, v) == [pc |-> "done", ret |-> e, initial_values |-> v, timeseries |-> <<>>,
                     order |-> <<>>, zipped |-> <<>>, t |-> 0, seeded |-> {}]
      tv == TemporalValues(d)
      derived == [i \in 1..Len(tv) |-> DerivedInitialValues(tf[tv[i]], ts2[tcol], m)]
      failing == {i \in 1..Len(tv) : \E j \in 1..Len(derived[i]) : ~derived[i][j].ok}
      upto == IF failing = {} THEN Len(tv) ELSE (CHOOSE i \in failing : \A j \in failing : i <= j) - 1
      RECURSIVE Merge(_, _)
      Merge(f, i) ==
        IF i > upto THEN f
        ELSE Merge(Put(f, NameOf(tv[i]), [j \in 1..Len(derived[i]) |-> derived[i][j].v]), i + 1)
      iv2 == [given |-> TRUE, map |-> Merge(iv.map, 1)]
      all_nodes == KeySet(d)
      wrong == {k \in all_nodes : Len(iv2.map[k]) # m}
      ts3 == [k \in DOMAIN ts2 |->
                IF k \in all_nodes THEN SliceAssign(ts2[k], m, iv2.map[k]) ELSE ts2[k]]
      enter(v, ts, sd) ==
        LET start == StartingTimestep(iv, m)
            z == SubSeq(ts[tcol], start + 1, Len(ts[tcol]))
        IN [pc |-> IF Min(Len(z), n - start) > 0 /\ topo.nodes # <<>> THEN "loop" ELSE "assemble",
            ret |-> Result("None", "", {}, NoTable), initial_values |-> v, timeseries |-> ts,
            order |-> topo.nodes, zipped |-> z, t |-> start, seeded |-> sd]
  IN IF StartFrequencyError(c.start_time, c.frequency) # ""
     THEN stop(Raise("ValueError", StartFrequencyError(c.start_time, c.frequency), {}), iv)
     ELSE IF topo.kind # "list"
     THEN stop(Raise(topo.kind, topo.what, {}), iv)
     ELSE IF ~(iv.given /\ DOMAIN iv.map # {})
     THEN enter(iv, ts2, {})
     ELSE IF failing # {}
     THEN stop(Raise((CHOOSE r \in {derived[upto + 1][j] : j \in 1..Len(derived[upto + 1])} :
                        ~r.ok).err.kind, "derived initial values", {}), iv2)
     ELSE IF all_nodes # DOMAIN iv2.map
     THEN stop(Raise("ValueError", "not provided in initial_values", all_nodes \ DOMAIN iv2.map), iv2)
     ELSE IF wrong # {}
     THEN LET w == IF named \in wrong THEN named ELSE CHOOSE k \in wrong : TRUE
          IN stop(Raise("ValueError", "expected value(s) but found",
                        [node |-> w, expected |-> m, found |-> Len(iv2.map[w])]), iv2)
     ELSE enter(iv2, ts3, {<<k, i>> : k \in all_nodes, i \in 0..(m - 1)})

\* lagged_timestep = current_timestep - lag
LaggedTimestep(t, lag) == t - lag

\* ParentValue with 0.0 in the place of the replacement value
ParentValueZeroBeforeStart(ts, e, t, replacement) ==
  IF LaggedTimestep(t, e[2]) >= 0
  THEN [v |-> ts[e[1]][LaggedTimestep(t, e[2]) + 1], cells |-> {<<e[1], LaggedTimestep(t, e[2])>>}]
  ELSE [v |-> Num(0), cells |-> {}]

\* the value of one (parent_node_name, lag) pair at timestep t, and the table
\* cell it was read from, if any
ParentValue(ts, e, t, replacement) ==
  IF LaggedTimestep(t, e[2]) >= 0
  THEN [v |-> ts[e[1]][LaggedTimestep(t, e[2]) + 1], cells |-> {<<e[1], LaggedTimestep(t, e[2])>>}]
  ELSE [v |-> Num(replacement), cells |-> {}]

\* parentwise_values: one entry per distinct pair; timeseries[name] of a name
\* that is no column is a KeyError
ParentwiseValues(ps, t, ts, replacement) ==
  LET bad == SelectSeq(ps, LAMBDA e : LaggedTimestep(t, e[2]) >= 0 /\ e[1] \notin DOMAIN ts)
  IN IF bad # <<>>
     THEN [ok |-> FALSE, values |-> <<>>, cells |-> {},
           err |-> Raise("KeyError", "timeseries[parent_node_name]", {Head(bad)[1]})]
     ELSE [ok |-> TRUE,
           values |-> [e \in SeqToSet(ps) |-> ParentValue(ts, e, t, replacement).v],
           cells |-> UNION {ParentValue(ts, e, t, replacement).cells : e \in SeqToSet(ps)},
           err |-> Raise("None", "", {})]

\* the value of one node at one timestep (the body of the inner loop), with
\* the parent_values it was computed from and the cells they were read from
EvaluateNode(o, t, time, ts, ps, c, tf, replacement, draw) ==
  IF IsTemporal(o)
  THEN [r |-> TimeFeatureEvaluate(tf[o], time), values |-> <<>>, cells |-> {}]
  ELSE LET pv == ParentwiseValues(ps[o], t, ts, replacement)
       IN [r |-> IF pv.ok THEN LinearGaussianEvaluate(c[o], pv.values, draw)
                 ELSE [ok |-> FALSE, v |-> Num(0), err |-> pv.err],
           values |-> pv.values, cells |-> pv.cells]

\* the timesteps the loop runs over: zip stops at the shorter of its two arguments
LastTimestep(c, z, start) == start + Min(Len(z), c.n_steps - start) - 1

\* pd.DataFrame(data=timeseries), then the selection of the columns
Assemble(c, ts, order) ==
  IF Cardinality({Len(ts[k]) : k \in DOMAIN ts}) > 1
  THEN Raise("ValueError", "All arrays must be of the same length", {})
  ELSE IF c.exclude_temporal_nodes_from_output
       THEN Raise("TypeError", "slice indexing with a list", {})
       ELSE Result("DataFrame", "", {},
                   [columns |-> DOMAIN ts, data |-> ts,
                    rows |-> Len(ts[c.time_column_name])])

TotalParents == Len(parents["nA"]) + Len(parents["nB"]) + Len(parents["nA2"])

add_parent(o, parent_name, lag) ==
  /\ pc = "idle"
  /\ TotalParents < MaxParents
  /\ parents' = AddParent(parents, o, parent_name, lag)
  /\ ret' = [op |-> "add_parent", res |-> None]
  /\ UNCHANGED <<cpd, time_feature, nodes, max_lag, gen_vars>>

add_node(o) ==
  /\ pc = "idle"
  /\ LET r == AddNode(nodes, max_lag, parents, o)
     IN /\ nodes' = r.nodes
        /\ max_lag' = r.max_lag
  /\ ret' = [op |-> "add_node", res |-> None]
  /\ UNCHANGED <<parents, cpd, time_feature, gen_vars>>

\* generate has not been called
GenIdle ==
  /\ pc = "idle"
  /\ call = NoCall
  /\ initial_values = NoInitialValues
  /\ timeseries = <<>>
  /\ nodes_in_topological_order = <<>>
  /\ zipped = <<>>
  /\ current_timestep = 0
  /\ idx = 0
  /\ passed = NothingPassed
  /\ reads = {}
  /\ seeded = {}
  /\ generated = {}

\* DBN.__init__ on freshly constructed nodes, each given its cpd / time feature
Init ==
  /\ parents = [o \in Objects |-> <<>>]
  /\ cpd = Cpds(0)
  /\ time_feature = [o \in TemporalObjects |-> PointOfPeriodicCycle(2)]
  /\ nodes = <<>>
  /\ max_lag = 0
  /\ ret = [op |-> "__init__", res |-> None]
  /\ GenIdle

get_topological_order ==
  /\ pc = "idle"
  /\ ret' = [op |-> "get_topological_order", res |-> GetTopologicalOrder(nodes, parents)]
  /\ UNCHANGED <<dbn_vars, gen_vars>>

validate_structure ==
  /\ pc = "idle"
  /\ ret' = [op |-> "validate_structure", res |-> ValidateStructure(nodes, parents)]
  /\ UNCHANGED <<dbn_vars, gen_vars>>

Next ==
  \/ \E o \in ParentedObjects, p \in ParentNames, lag \in Lags : add_parent(o, p, lag)
  \/ \E o \in Objects : add_node(o)
  \/ get_topological_order
  \/ validate_structure

Spec == Init /\ [][Next]_vars

\* --------------------------------------------------- the calls of generate
\* The initial value a caller supplies for row i of a node.
InitialValue(name, i) ==
  Num(((CASE name = "A" -> 10 [] name = "B" -> 5 [] OTHER -> 20) + (i - 1)) * Unit)

\* An initial_values dict: its keys, each with a list of max_lag values, but
\* for the key `long`, whose list is one longer.
InitialValuesDict(keys, long, m) ==
  [given |-> TRUE,
   map |-> [k \in keys |-> [i \in 1..(IF k = long THEN m + 1 ELSE m) |-> InitialValue(k, i)]]]

\* None; the empty dict; every set of node names as keys; a key that names no
\* node; one list of the wrong length.
InitialValuesChoices(m) ==
  {NoInitialValues}
  \cup {InitialValuesDict(keys, "", m) : keys \in SUBSET {"A", "B", "T"}}
  \cup {InitialValuesDict(keys, "", m) : keys \in {{"A", "X"}, {"A", "B", "X"}}}
  \cup {InitialValuesDict(keys, long, m) : keys \in {{long} : long \in {"A", "B"}} \cup {{"A", "B"}},
                                          long \in {"A", "B"}}

\* The number of keyword arguments a call gives a value other than its default.
Overrides(c) ==
  (IF c.initial_values.given THEN 1 ELSE 0)
  + (IF c.replacement_value_for_non_existing_parents # 0 THEN 1 ELSE 0)
  + (IF c.time_column_name # "Time" THEN 1 ELSE 0)
  + (IF c.start_time # "None" THEN 1 ELSE 0)
  + (IF c.frequency # "None" THEN 1 ELSE 0)
  + (IF c.exclude_temporal_nodes_from_output THEN 1 ELSE 0)

Calls(m) ==
  {c \in [n_steps : 0..MaxSteps,
          initial_values : InitialValuesChoices(m),
          replacement_value_for_non_existing_parents : {0, 7 * Unit},
          time_column_name : {"Time", "A"},
          start_time : {"None", "2024-01-01"},
          frequency : {"None", "D"},
          exclude_temporal_nodes_from_output : BOOLEAN] : Overrides(c) <= MaxOverrides}

\* The nodes whose list may be found of a wrong length: a supplied list that
\* is, and the derived list of a temporal node.
NamedChoices(c, d, m) ==
  LET given == {k \in KeySet(d) \cap DOMAIN c.initial_values.map :
                  Len(c.initial_values.map[k]) # m}
      derived == {NameOf(d[i].obj) : i \in {i \in 1..Len(d) : IsTemporal(d[i].obj)}}
      all == IF c.initial_values.given THEN given \cup derived ELSE {}
  IN IF all = {} THEN {""} ELSE all

\* Sampler.generate, up to the entry of its loop
generate ==
  /\ pc = "idle"
  /\ \E c \in Calls(max_lag) :
     \E named \in NamedChoices(c, nodes, max_lag) :
     \E r \in {GenerateCall(c, nodes, parents, time_feature, max_lag, named)} :
          /\ call' = c
          /\ pc' = r.pc
          /\ ret' = [op |-> "generate", res |-> r.ret]
          /\ initial_values' = r.initial_values
          /\ timeseries' = r.timeseries
          /\ nodes_in_topological_order' = r.order
          /\ zipped' = r.zipped
          /\ current_timestep' = r.t
          /\ seeded' = r.seeded
  /\ idx' = 1
  /\ passed' = NothingPassed
  /\ reads' = {}
  /\ generated' = {}
  /\ UNCHANGED dbn_vars

\* one pass of the inner loop: the current node at the current timestep
generate_step ==
  /\ pc = "loop"
  /\ \E draw \in Draws :
       LET o == nodes_in_topological_order[idx]
           t == current_timestep
           start == StartingTimestep(call.initial_values, max_lag)
           last == idx = Len(nodes_in_topological_order)
       IN \E e \in {EvaluateNode(o, t, zipped[t - start + 1], timeseries, parents, cpd,
                       time_feature, call.replacement_value_for_non_existing_parents, draw)} :
          IF e.r.ok
          THEN /\ timeseries' = [timeseries EXCEPT ![NameOf(o)][t + 1] = e.r.v]
               /\ generated' = generated \cup {<<NameOf(o), t>>}
               /\ passed' = [node |-> NameOf(o), t |-> t, values |-> e.values]
               /\ reads' = e.cells
               /\ idx' = IF last THEN 1 ELSE idx + 1
               /\ current_timestep' = IF last THEN t + 1 ELSE t
               /\ pc' = IF last /\ t = LastTimestep(call, zipped, start) THEN "assemble" ELSE "loop"
               /\ UNCHANGED ret
          ELSE /\ pc' = "done"
               /\ ret' = [op |-> "generate", res |-> e.r.err]
               /\ UNCHANGED <<timeseries, generated, passed, reads, idx, current_timestep>>
  /\ UNCHANGED <<dbn_vars, call, initial_values, nodes_in_topological_order, zipped, seeded>>

\* the DataFrame and the return
generate_assemble ==
  /\ pc = "assemble"
  /\ pc' = "done"
  /\ ret' = [op |-> "generate", res |-> Assemble(call, timeseries, nodes_in_topological_order)]
  /\ UNCHANGED <<dbn_vars, call, initial_values, timeseries, nodes_in_topological_order, zipped,
                 current_timestep, idx, passed, reads, seeded, generated>>

\* ------------------------------------------------ the networks generate runs on
P(name, lag) == <<name, lag>>

\* The parents lists the two nodes are given before they are added: a root, a
\* node fed by its own past, by a node two steps back, by a node of the same
\* timestep, by the same pair twice, by the clock and a lagged node.
GenParentsA ==
  {<<>>, <<P("A", 1)>>, <<P("B", 2)>>, <<P("B", 0)>>, <<P("A", 1), P("A", 1)>>,
   <<P("T", 0), P("B", 1)>>}
GenParentsB ==
  {<<>>, <<P("A", 1)>>, <<P("A", 0)>>, <<P("A", 0), P("T", 0)>>}
\* The add_node calls, in order: a network that leaves out "B", or "A", leaves
\* the parents of that name dangling.
GenAddOrders ==
  {<<"nA", "nB">>, <<"nB", "nA", "tT">>, <<"nA">>, <<"nB", "tT">>, <<"nA", "nB", "nA2">>}

RECURSIVE AddNodes(_, _, _, _)
AddNodes(d, m, ps, order) ==
  IF order = <<>> THEN [nodes |-> d, max_lag |-> m]
  ELSE LET r == AddNode(d, m, ps, Head(order))
       IN AddNodes(r.nodes, r.max_lag, ps, Tail(order))

\* Every such network with noiseless distributions and a periodic clock, its
\* parents added before add_node or (late) after it; two of them with noise
\* of standard deviation 1 and -1; one with the day of the week as its clock.
GenConfigs ==
  [pA : GenParentsA, pB : GenParentsB, order : GenAddOrders, late : BOOLEAN,
   noise_std : {0}, tf : {PointOfPeriodicCycle(2)}]
  \cup [pA : {<<>>, <<P("A", 1)>>}, pB : {<<P("A", 1)>>}, order : {<<"nA", "nB">>},
        late : {FALSE}, noise_std : {1, -1}, tf : {PointOfPeriodicCycle(2)}]
  \cup [pA : {<<>>}, pB : {<<P("A", 0), P("T", 0)>>}, order : {<<"nB", "nA", "tT">>},
        late : {FALSE}, noise_std : {0}, tf : {DayOfWeek}]

\* The state after the network is assembled: add_parent on the nodes and
\* add_node in the given order.
InitGen ==
  \E g \in GenConfigs :
    LET ps == [o \in Objects |-> CASE o = "nA" -> g.pA [] o = "nB" -> g.pB [] OTHER -> <<>>]
        r == AddNodes(<<>>, 0, IF g.late THEN [o \in Objects |-> <<>>] ELSE ps, g.order)
    IN /\ parents = ps
       /\ cpd = Cpds(g.noise_std)
       /\ time_feature = [o \in TemporalObjects |-> g.tf]
       /\ nodes = r.nodes
       /\ max_lag = r.max_lag
       /\ ret = [op |-> IF g.late THEN "add_parent" ELSE "add_node", res |-> None]
       /\ GenIdle

NextGen ==
  \/ generate
  \/ generate_step
  \/ generate_assemble

SpecGen == InitGen /\ [][NextGen]_vars

\* Every product of a weight and a value is a whole number of units.
ExactArithmetic ==
  \A o \in RegularObjects : \A key \in DOMAIN passed.values :
    passed.values[key].k = "num" =>
      (WeightGet(cpd[o].parent_weights, key) * passed.values[key].v) % 5 = 0

\* --------------------------------------- the setters and the evaluators alone
\* The cycle lengths PointOfPeriodicCycle is built with run to MaxCycleLength,
\* the integer timesteps a time feature is evaluated at to MaxTimestep.
MaxCycleLength == 3
MaxTimestep == 6

\* Values that are no evaluator of the package: an object of another class
\* with an evaluate method, a subclass of TimeFeature whose evaluate is not
\* callable (evaluate = None in the class body), and a float.
ForeignEvaluable == [kind |-> "object with evaluate()"]
BrokenTimeFeature == [kind |-> "TimeFeature with evaluate = None"]
AFloat == [kind |-> "float"]

IsLinearGaussianCPD(value) == "noise_std" \in DOMAIN value

\* callable(getattr(value, "evaluate", None))
HasCallableEvaluate(value) ==
  \/ IsLinearGaussianCPD(value)
  \/ value.kind \in {"PointOfPeriodicCycle", "DayOfWeek", "DayOfMonth", "MonthOfYear",
                     "object with evaluate()"}

\* issubclass(type(value), TimeFeature)
IsTimeFeature(value) ==
  /\ ~IsLinearGaussianCPD(value)
  /\ value.kind \in {"PointOfPeriodicCycle", "DayOfWeek", "DayOfMonth", "MonthOfYear",
                     "TimeFeature with evaluate = None"}

\* SetCpd that assigns before it checks
SetCpdThenCheck(old, value) ==
  IF ~HasCallableEvaluate(value)
  THEN [res |-> Raise("ValueError", "The CPD must implement an 'evaluate' method.", {}),
        cpd |-> value]
  ELSE [res |-> None, cpd |-> value]

\* Node.set_cpd: what it raises or returns, and self.cpd after it
SetCpd(old, value) ==
  IF ~HasCallableEvaluate(value)
  THEN [res |-> Raise("ValueError", "The CPD must implement an 'evaluate' method.", {}),
        cpd |-> old]
  ELSE [res |-> None, cpd |-> value]

\* TemporalNode.set_time_feature: what it raises or returns, and
\* self.time_feature after it
SetTimeFeature(old, value) ==
  IF ~IsTimeFeature(value)
  THEN [res |-> Raise("TypeError", "time_feature must be an instance of type TimeFeature", {}),
        time_feature |-> old]
  ELSE IF ~HasCallableEvaluate(value)
  THEN [res |-> Raise("ValueError", "The time feature must implement an 'evaluate' method.", {}),
        time_feature |-> old]
  ELSE [res |-> None, time_feature |-> value]

\* the noise_std a LinearGaussianCPD is constructed with, and the
\* distributions constructed
NoiseStds == {-1, 0, 1}
ConstructedCpds ==
  {LinearGaussianCPD(w, Unit, sd) : w \in {<<>>, [key \in {<<"A", 1>>} |-> 5]}, sd \in NoiseStds}
TimeFeatures ==
  {PointOfPeriodicCycle(len) : len \in 1..MaxCycleLength} \cup {DayOfWeek, DayOfMonth, MonthOfYear}
Others == {ForeignEvaluable, BrokenTimeFeature, AFloat, None}

\* the times a feature is evaluated at: integer timesteps, and dates of 2024
\* (the first days, the turn of January, leap day, the last day)
Times2024 == {0, 1, 6, 7, 30, 31, 59, 60, 365}
TimeArguments == {Num(t * Unit) : t \in 0..MaxTimestep} \cup {Ts(d) : d \in Times2024}

\* LinearGaussianCPD(parent_weights, intrinsic_mean, noise_std)
new_LinearGaussianCPD(parent_weights, intrinsic_mean, noise_std) ==
  /\ pc = "idle"
  /\ ret' = [op |-> "LinearGaussianCPD",
             arg |-> [parent_weights |-> parent_weights, intrinsic_mean |-> intrinsic_mean,
                      noise_std |-> noise_std],
             res |-> None,
             obj |-> LinearGaussianCPD(parent_weights, intrinsic_mean, noise_std)]
  /\ UNCHANGED <<dbn_vars, gen_vars>>

\* the object the last call constructed, if it constructed one
Constructed == IF ret.op = "LinearGaussianCPD" THEN {ret.obj} ELSE {}

\* node.set_cpd(value), the value an evaluator, another object, or the
\* distribution just constructed
set_cpd ==
  /\ pc = "idle"
  /\ \E o \in ParentedObjects, value \in Constructed \cup TimeFeatures \cup Others :
     \E r \in {SetCpd(cpd[o], value)} :
       /\ cpd' = [cpd EXCEPT ![o] = r.cpd]
       /\ ret' = [op |-> "set_cpd", arg |-> [node |-> o, value |-> value], res |-> r.res]
  /\ UNCHANGED <<parents, time_feature, nodes, max_lag, gen_vars>>

\* node.set_time_feature(value)
set_time_feature ==
  /\ pc = "idle"
  /\ \E o \in TemporalObjects, value \in Constructed \cup TimeFeatures \cup Others :
     \E r \in {SetTimeFeature(time_feature[o], value)} :
       /\ time_feature' = [time_feature EXCEPT ![o] = r.time_feature]
       /\ ret' = [op |-> "set_time_feature", arg |-> [node |-> o, value |-> value], res |-> r.res]
  /\ UNCHANGED <<parents, cpd, nodes, max_lag, gen_vars>>

\* node.time_feature.evaluate(time)
time_feature_evaluate(o, time) ==
  /\ pc = "idle"
  /\ ret' = [op |-> "time_feature.evaluate",
             arg |-> [feature |-> time_feature[o], time |-> time],
             res |-> TimeFeatureEvaluate(time_feature[o], time)]
  /\ UNCHANGED <<dbn_vars, gen_vars>>

\* node.cpd.evaluate(parent_values), of a node whose cpd is a LinearGaussianCPD
cpd_evaluate(o, parent_values, draw) ==
  /\ pc = "idle"
  /\ IsLinearGaussianCPD(cpd[o])
  /\ ret' = [op |-> "cpd.evaluate",
             arg |-> [cpd |-> cpd[o], parent_values |-> parent_values],
             res |-> LinearGaussianEvaluate(cpd[o], parent_values, draw)]
  /\ UNCHANGED <<dbn_vars, gen_vars>>

NextEval ==
  \/ \E c \in ConstructedCpds :
       new_LinearGaussianCPD(c.parent_weights, c.intrinsic_mean, c.noise_std)
  \/ set_cpd
  \/ set_time_feature
  \/ \E o \in TemporalObjects, time \in TimeArguments : time_feature_evaluate(o, time)
  \/ \E o \in ParentedObjects, pv \in {<<>>, [key \in {<<"A", 1>>} |-> Num(2 * Unit)]},
        draw \in Draws : cpd_evaluate(o, pv, draw)

SpecEval == Init /\ [][NextEval]_vars

\* ------------------------------------------------------------ the properties
\* the node objects the network holds, and the node a name stands for
Held(d) == {d[i].obj : i \in 1..Len(d)}
ObjectNamed(d, name) == d[Get(d, name)].obj
RegularNames(d) == {name \in KeySet(d) : ~IsTemporal(ObjectNamed(d, name))}

LagsOf(d, ps) == UNION {{ps[o][k][2] : k \in 1..Len(ps[o])} : o \in Held(d)}
Largest(S) == IF S = {} THEN 0 ELSE CHOOSE x \in S : \A y \in S : y <= x

\* the lag-0 edges <<parent, child>> of the network, and the cycles in them
LagZeroEdges(d, ps) ==
  UNION {{<<ps[o][k][1], NameOf(o)>> : k \in {k \in 1..Len(ps[o]) : ps[o][k][2] = 0}}
         : o \in Held(d)}
RECURSIVE PathWithin(_, _, _, _)
PathWithin(E, a, b, n) ==
  \/ <<a, b>> \in E
  \/ n > 1 /\ \E e \in E : e[1] = a /\ PathWithin(E, e[2], b, n - 1)
HasLagZeroCycle(d, ps) ==
  LET E == LagZeroEdges(d, ps)
  IN \E e \in E : PathWithin(E, e[1], e[1], Cardinality(E))

\* the parent names, of any lag, that name no node of the network
DanglingParents(d, ps) ==
  UNION {{ps[o][k][1] : k \in 1..Len(ps[o])} : o \in Held(d)} \ KeySet(d)
LagZeroParentsAreNodes(d, ps) == \A e \in LagZeroEdges(d, ps) : e[1] \in KeySet(d)

\* every lag-0 parent of a node of the list stands before it in the list
ParentsFirst(list, ps) ==
  \A i \in 1..Len(list) : \A k \in 1..Len(ps[list[i]]) :
    ps[list[i]][k][2] = 0 => \E j \in 1..(i - 1) : NameOf(list[j]) = ps[list[i]][k][1]

\* C1: after any sequence of add_parent and add_node calls, DBN.max_lag is the
\* largest lag of all (parent, lag) pairs of the nodes DBN.nodes holds, and 0
\* when there is no pair.
C1_MaxLagIsLargestLag == max_lag = Largest(LagsOf(nodes, parents))

\* C2, as claimed: get_topological_order returns a list with every lag-0
\* parent before its children whenever the lag-0 edges are acyclic, and raises
\* the cycle error whenever they hold a cycle.
C2_OrderForEveryAcyclicNetwork ==
  ret.op = "get_topological_order" =>
    IF HasLagZeroCycle(nodes, parents)
    THEN ret.res.kind = "ValueError" /\ ret.res.what = "Cycle detected in 0-lag dependencies"
    ELSE ret.res.kind = "list" /\ ParentsFirst(ret.res.nodes, parents)

\* C2, amended: the same, for the acyclic networks whose lag-0 parents are
\* all nodes of the network; a lag-0 cycle is the cycle error on every network,
\* and edges of lag >= 1 never count.
C2_OrderWhenLagZeroParentsAreNodes ==
  ret.op = "get_topological_order" =>
    IF HasLagZeroCycle(nodes, parents)
    THEN ret.res.kind = "ValueError" /\ ret.res.what = "Cycle detected in 0-lag dependencies"
    ELSE LagZeroParentsAreNodes(nodes, parents) =>
           ret.res.kind = "list" /\ ParentsFirst(ret.res.nodes, parents)

\* a list is returned that puts a lag-0 parent before a child that was added
\* to the network before it, on a network that also has an edge of lag >= 1
C2_Witness ==
  /\ ret.op = "get_topological_order"
  /\ ret.res.kind = "list"
  /\ \E i, j \in 1..Len(nodes) :
       /\ i < j
       /\ <<nodes[j].name, nodes[i].name>> \in LagZeroEdges(nodes, parents)
  /\ \E lag \in LagsOf(nodes, parents) : lag >= 1

\* C10: validate_structure fails exactly when some parent names no node of
\* the network or the lag-0 edges hold a cycle.
C10_ValidateStructureFails ==
  ret.op = "validate_structure" =>
    (ret.res.kind # "None"
       <=> (DanglingParents(nodes, parents) # {} \/ HasLagZeroCycle(nodes, parents)))

\* the distributions of the network draw no noise
Noiseless == \A o \in Held(nodes) \cap RegularObjects : cpd[o].noise_std = 0

RECURSIVE WeightedParents(_, _, _)
\* the sum, over the pairs, of weight times the parent's table value at row
\* t - lag, or times the replacement value when that row is before the start
WeightedParents(o, t, pairs) ==
  IF pairs = {} THEN 0
  ELSE LET e == CHOOSE x \in pairs : TRUE
           value == IF t - e[2] >= 0 THEN timeseries[e[1]][t - e[2] + 1].v
                    ELSE call.replacement_value_for_non_existing_parents
       IN (WeightGet(cpd[o].parent_weights, e) * value) \div 5
          + WeightedParents(o, t, pairs \ {e})

\* the network and the call of the scenario: A around 5, B = 1 + 0.8 * A one
\* step back, initial values A = [10], B = [5], three steps
ScenarioAB ==
  /\ parents["nA"] = <<>>
  /\ parents["nB"] = <<P("A", 1)>>
  /\ Held(nodes) = {"nA", "nB"}
  /\ max_lag = 1
  /\ Noiseless
  /\ call = [NoCall EXCEPT !.n_steps = 3,
                           !.initial_values = InitialValuesDict({"A", "B"}, "", 1)]

\* C3: without noise, every value generate writes for a regular node N at a
\* timestep t is intercept(N) plus the weighted sum over N's pairs; the
\* scenario yields the rows (10, 5), (5, 9), (5, 5).
C3_NoiselessValues ==
  /\ Noiseless =>
       \A cell \in generated :
         cell[1] \in RegularNames(nodes) =>
           LET o == ObjectNamed(nodes, cell[1])
           IN timeseries[cell[1]][cell[2] + 1] =
                Num(cpd[o].intrinsic_mean + WeightedParents(o, cell[2], SeqToSet(parents[o])))
  /\ (ScenarioAB /\ pc = "done") =>
       /\ ret.res.kind = "DataFrame"
       /\ ret.res.table.data["A"] = <<Num(10 * Unit), Num(5 * Unit), Num(5 * Unit)>>
       /\ ret.res.table.data["B"] = <<Num(5 * Unit), Num(9 * Unit), Num(5 * Unit)>>

C3_Witness == ScenarioAB /\ pc = "done" /\ ret.res.kind = "DataFrame"

\* the time column has a name of its own
OwnTimeColumn == call.time_column_name \notin KeySet(nodes)

\* generate raised before it looked at initial_values
FailedBeforeInitialValues ==
  /\ pc = "done"
  /\ ret.res.what \in {"frequency should be provided", "start_time should be provided",
                       "Cycle detected in 0-lag dependencies", "self.nodes[name]",
                       "derived initial values"}

\* the regular nodes the supplied mapping has no entry for, and those whose
\* entry is not max_lag long
MissingNodes == RegularNames(nodes) \ DOMAIN call.initial_values.map
WrongLengthNodes ==
  {name \in RegularNames(nodes) \cap DOMAIN call.initial_values.map :
     Len(call.initial_values.map[name]) # max_lag}

\* C4: called with an initial-values mapping, whatever its keys, and a time
\* column of its own, generate
\* raises the argument error that names the missing nodes if a non-temporal
\* node has no entry, and the one that names the expected and the found
\* length if an entry is not max_lag long, before any value is generated.
C4_InitialValuesRejected ==
  (pc # "idle" /\ OwnTimeColumn /\ call.initial_values.given /\ ~FailedBeforeInitialValues) =>
    /\ MissingNodes # {} =>
         /\ pc = "done"
         /\ ret.res.kind = "ValueError"
         /\ ret.res.what = "not provided in initial_values"
         /\ ret.res.info = MissingNodes
         /\ generated = {}
    /\ (MissingNodes = {} /\ WrongLengthNodes # {}) =>
         /\ pc = "done"
         /\ ret.res.kind = "ValueError"
         /\ ret.res.what = "expected value(s) but found"
         /\ ret.res.info.node \in WrongLengthNodes
         /\ ret.res.info.expected = max_lag
         /\ ret.res.info.found = Len(call.initial_values.map[ret.res.info.node])
         /\ generated = {}

\* C5: a table generate returns has one column for every node name and one
\* more for the time, each of n_steps rows, the timesteps in increasing order.
C5_TableShape ==
  (pc = "done" /\ ret.res.kind = "DataFrame") =>
    LET tb == ret.res.table
        tcol == call.time_column_name
    IN /\ tcol \notin KeySet(nodes)
       /\ tb.columns = KeySet(nodes) \cup {tcol}
       /\ \A c \in tb.columns : Len(tb.data[c]) = call.n_steps
       /\ tb.rows = call.n_steps
       /\ \A i \in 1..Len(tb.data[tcol]) : \A j \in 1..Len(tb.data[tcol]) :
            i < j => tb.data[tcol][i].k = tb.data[tcol][j].k
                     /\ tb.data[tcol][i].v < tb.data[tcol][j].v

\* C6: on a network with a parent that names no node, whose max_lag is its
\* largest lag, and with a time column of its own, generate fails during
\* the ordering, before any value is generated, whatever n_steps and
\* initial_values; it never returns a table.
C6_DanglingParentRejected ==
  (pc # "idle" /\ OwnTimeColumn /\ C1_MaxLagIsLargestLag
     /\ DanglingParents(nodes, parents) # {}
     /\ (call.start_time = "None" <=> call.frequency = "None")) =>
    /\ pc = "done"
    /\ ret.res.kind \in {"KeyError", "ValueError"}
    /\ ret.res.what \in {"self.nodes[name]", "Cycle detected in 0-lag dependencies"}
    /\ generated = {}

\* generate raised before it built the DataFrame, or could not build it
FailedBeforeSelection ==
  \/ FailedBeforeInitialValues
  \/ /\ pc = "done"
     /\ ret.res.what \in {"not provided in initial_values", "expected value(s) but found",
                          "timeseries[parent_node_name]", "Timestamp % int",
                          "float * Timestamp", "isoweekday", "scale < 0",
                          "All arrays must be of the same length"}

\* C7: with exclude_temporal_nodes_from_output and a time column of its own,
\* generate returns the table of
\* the non-temporal nodes and the time column, with the values generated.
C7_TemporalColumnsDropped ==
  (pc = "done" /\ OwnTimeColumn /\ call.exclude_temporal_nodes_from_output
     /\ ~FailedBeforeSelection) =>
    /\ ret.res.kind = "DataFrame"
    /\ ret.res.table.columns = RegularNames(nodes) \cup {call.time_column_name}
    /\ \A c \in ret.res.table.columns : ret.res.table.data[c] = timeseries[c]

\* C8: a pair whose row t - lag is before the start is given the replacement
\* value and reads no table cell; every other pair is given the parent's
\* table value at row t - lag.
C8_ReplacementBeforeStart ==
  /\ \A cell \in reads : cell[2] >= 0
  /\ \A key \in DOMAIN passed.values :
       IF passed.t - key[2] < 0
       THEN /\ passed.values[key] = Num(call.replacement_value_for_non_existing_parents)
            /\ \A cell \in reads : cell # <<key[1], passed.t - key[2]>>
       ELSE /\ passed.values[key] = timeseries[key[1]][passed.t - key[2] + 1]
            /\ <<key[1], passed.t - key[2]>> \in reads

\* without initial values, a node is evaluated at timestep 1 with a lag-2
\* pair, which is given the overridden replacement value
C8_Witness ==
  /\ ~call.initial_values.given
  /\ call.replacement_value_for_non_existing_parents = 7 * Unit
  /\ passed.node # ""
  /\ passed.t = 1
  /\ \E key \in DOMAIN passed.values : key[2] = 2 /\ passed.values[key] = Num(7 * Unit)

\* C9: with exactly one of start_time and frequency, generate raises the
\* argument error, whatever the network, with no ordering computed and no
\* value generated; with both or neither it does not raise it.
C9_StartTimeNeedsFrequency ==
  pc # "idle" =>
    IF (call.start_time = "None") # (call.frequency = "None")
    THEN /\ pc = "done"
         /\ ret.res.kind = "ValueError"
         /\ ret.res.what = IF call.frequency = "None" THEN "frequency should be provided"
                           ELSE "start_time should be provided"
         /\ nodes_in_topological_order = <<>>
         /\ generated = {}
    ELSE ret.res.what \notin {"frequency should be provided", "start_time should be provided"}

\* frequency alone, on a network whose ordering would fail
C9_Witness ==
  /\ pc = "done"
  /\ call.start_time = "None"
  /\ call.frequency = "D"
  /\ HasLagZeroCycle(nodes, parents)
  /\ ret.res.what = "start_time should be provided"
\* C11: set_cpd given a value without a callable evaluate raises ValueError,
\* and set_time_feature given a value that is no TimeFeature, or has no
\* callable evaluate, raises; a failing call leaves the cpd / time_feature the
\* node had, an accepted one makes it the value given.
C11_SettersCheckAtAssignment ==
  [][/\ ret'.op = "set_cpd" =>
          LET o == ret'.arg.node
              value == ret'.arg.value
          IN /\ IF value \in {BrokenTimeFeature, AFloat, None}
                THEN ret'.res.kind = "ValueError" /\ cpd'[o] = cpd[o]
                ELSE ret'.res.kind = "None" /\ cpd'[o] = value
             /\ \A other \in RegularObjects \ {o} : cpd'[other] = cpd[other]
     /\ ret'.op = "set_time_feature" =>
          LET o == ret'.arg.node
              value == ret'.arg.value
          IN IF value \in TimeFeatures
             THEN ret'.res.kind = "None" /\ time_feature'[o] = value
             ELSE ret'.res.kind \in {"TypeError", "ValueError"}
                  /\ time_feature'[o] = time_feature[o]
    ]_vars

\* a set_cpd that failed on a node whose cpd an earlier set_cpd had replaced
C11_Witness ==
  /\ ret.op = "set_cpd"
  /\ ret.res.kind = "ValueError"
  /\ cpd[ret.arg.node] # Cpds(0)[ret.arg.node]
\* C12: for every integer timestep t >= 0, DayOfWeek.evaluate(t) is
\* (t mod 7) + 1, DayOfMonth.evaluate(t) is (t mod 31) + 1 and
\* MonthOfYear.evaluate(t) is (t mod 12) + 1.
C12_CalendarFeaturesOfTimesteps ==
  (ret.op = "time_feature.evaluate" /\ ret.arg.time.k = "num"
     /\ ret.arg.feature.kind \in {"DayOfWeek", "DayOfMonth", "MonthOfYear"}) =>
    LET t == ret.arg.time.v \div Unit
        period == CASE ret.arg.feature.kind = "DayOfWeek" -> 7
                    [] ret.arg.feature.kind = "DayOfMonth" -> 31
                    [] ret.arg.feature.kind = "MonthOfYear" -> 12
    IN ret.res.ok /\ ret.res.v = Num(((t % period) + 1) * Unit)
\* C13: a LinearGaussianCPD with a negative noise_std cannot be constructed:
\* the constructor raises, no node holds such a distribution, and evaluate
\* never meets a negative scale.
C13_NegativeNoiseRejected ==
  /\ (ret.op = "LinearGaussianCPD" /\ ret.arg.noise_std < 0) => ret.res.kind = "ValueError"
  /\ \A o \in RegularObjects : IsLinearGaussianCPD(cpd[o]) => cpd[o].noise_std >= 0
  /\ ret.op = "cpd.evaluate" => ret.res.err.what # "scale < 0"

\* the last call evaluated a PointOfPeriodicCycle at an integer timestep
EvaluatedCycle(r) ==
  /\ r.op = "time_feature.evaluate"
  /\ r.arg.feature.kind = "PointOfPeriodicCycle"
  /\ r.arg.time.k = "num"

\* C14: for every cycle length L >= 1 and integer timestep t >= 0,
\* PointOfPeriodicCycle(L).evaluate(t) is (t mod L) + 1, lies in 1..L, and is
\* what evaluate(t + L) returns.
C14_PointOfPeriodicCycle ==
  /\ [](EvaluatedCycle(ret) =>
          LET len == ret.arg.feature.periodic_cycle_length
              t == ret.arg.time.v \div Unit
          IN /\ ret.res.ok
             /\ ret.res.v = Num(((t % len) + 1) * Unit)
             /\ \E point \in 1..len : ret.res.v = Num(point * Unit))
  /\ [][(/\ EvaluatedCycle(ret)
         /\ EvaluatedCycle(ret')
         /\ ret'.arg.feature = ret.arg.feature
         /\ ret'.arg.time.v = ret.arg.time.v + ret.arg.feature.periodic_cycle_length * Unit)
          => ret'.res = ret.res]_vars

\* a cycle of length 3 evaluated at timestep 5, past its first round
C14_Witness ==
  /\ EvaluatedCycle(ret)
  /\ ret.arg.feature.periodic_cycle_length = 3
  /\ ret.arg.time = Num(5 * Unit)
  /\ ret.res.v = Num(3 * Unit)
\* the network is one generate is meant for: every parent names a node and
\* the lag-0 edges hold no cycle
WellFormed == DanglingParents(nodes, parents) = {} /\ ~HasLagZeroCycle(nodes, parents)

\* C15: on such a network (with max_lag its largest lag and a time column of
\* its own), every table cell read while a node is evaluated was filled
\* before the read, from the initial values or by an earlier evaluation, and
\* no value of timestep t is generated before every node has its value of
\* timestep t - 1.
C15_ReadsAreFilled ==
  (pc # "idle" /\ WellFormed /\ OwnTimeColumn /\ C1_MaxLagIsLargestLag) =>
    /\ reads \subseteq seeded \cup (generated \ {<<passed.node, passed.t>>})
    /\ \A cell \in generated :
         cell[2] > 0 =>
           \A name \in KeySet(nodes) : <<name, cell[2] - 1>> \in seeded \cup generated
\* C16: a table of at least max_lag rows, with a time column of its own,
\* returned for a call with initial values has, in its rows
\* 0..max_lag-1, the supplied values of every regular node and the time
\* feature of every temporal node applied to the time axis, none of them
\* written by the loop; a table returned for a call without has every row of
\* every node written by the loop.
C16_WarmUpRows ==
  (pc = "done" /\ ret.res.kind = "DataFrame" /\ OwnTimeColumn /\ call.n_steps >= max_lag) =>
    LET data == ret.res.table.data
        axis == data[call.time_column_name]
    IN IF call.initial_values.given
       THEN \A name \in KeySet(nodes) : \A i \in 1..max_lag :
              /\ <<name, i - 1>> \notin generated
              /\ i <= Len(data[name])
              /\ IF name \in RegularNames(nodes)
                 THEN /\ name \in DOMAIN call.initial_values.map
                      /\ data[name][i] = call.initial_values.map[name][i]
                 ELSE data[name][i] =
                        TimeFeatureEvaluate(time_feature[ObjectNamed(nodes, name)], axis[i]).v
       ELSE \A name \in KeySet(nodes) : \A t \in 0..(call.n_steps - 1) :
              <<name, t>> \in generated
\* C17: generate never changes the initial_values mapping it is handed: once
\* it has run, returned or raised, the mapping has the keys and the lists it
\* had at the call.
C17_InitialValuesNotMutated ==
  pc # "idle" => initial_values = call.initial_values
====
